---------------------------- MODULE Spec2Model ----------------------------
(***************************************************************************)
(* State-machine model of stompest.async.client.StompClient, the Twisted   *)
(* STOMP client (src/stompest/async/client.py).                            *)
(*                                                                         *)
(* One StompClient object bound to one transport is modelled at a time;    *)
(* the StompSession object survives from one client object to the next     *)
(* (StompFactory passes the same session keyword to every protocol).       *)
(*                                                                         *)
(* The methods of the client are operators on a record `s` holding the     *)
(* object's attributes, so that a method calling another method is the     *)
(* composition of the two operators.  The actions at the end apply one     *)
(* public method, reactor callback or transport event to the state.        *)
(*                                                                         *)
(* _handleMessage is an inlineCallbacks coroutine: it runs up to the       *)
(* `yield` (line 302) when the MESSAGE frame is dispatched and resumes     *)
(* when the handler's Deferred fires.  The two halves are two operators    *)
(* (and two actions); a handler that completes synchronously is the        *)
(* behaviour in which the second half follows the first immediately.       *)
(***************************************************************************)
EXTENDS Naturals, Sequences, FiniteSets

\* ------------------------------------------------------------------ bounds
\* Calls and frames that change what the client holds, over all connections:
\* subscribe(), unsubscribe(), disconnect(), a MESSAGE frame, an ERROR frame
\* that is not the broker quirk, a new client object.
MaxCalls == 4

\* ------------------------------------------------------------- value sets
MsgIds == {"m1", "m2"}
Dests == {"/queue/a", "/queue/b"}
NoValue == "-"

\* StompClient.CLIENT_ACK_MODES, StompClient.DEFAULT_ACK_MODE
CLIENT_ACK_MODES == {"client", "client-individual"}
DEFAULT_ACK_MODE == "client"

\* The subscribe() calls the user makes: (destination, ack header, errorDestination
\* keyword, handler); NoValue is a header or keyword left out.  Every ack mode
\* and both kinds of errorDestination occur.
SubscribeCalls ==
    { <<"/queue/a", NoValue, NoValue, "h1">>,
      <<"/queue/a", "auto", "/queue/err", "h2">>,
      <<"/queue/b", "client-individual", NoValue, "h3">>,
      <<"/queue/b", "client", "/queue/err", "h4">> }

\* Failures (exceptions / Failure objects).  NoError is Python's None.
NoError == [type |-> "None", of |-> NoValue]
StompConnectTimeout == [type |-> "StompConnectTimeout", of |-> NoValue]
StompProtocolError == [type |-> "StompProtocolError", of |-> NoValue]
StompConnectionError == [type |-> "StompConnectionError", of |-> NoValue]
HandlerFailure(m) == [type |-> "HandlerFailure", of |-> m]
UserCause(c) == [type |-> "UserCause", of |-> c]
UserCauses == {UserCause("cause1"), UserCause("cause2")}

\* The value with which a Deferred was fired.
Success == [type |-> "Success", of |-> NoValue]

\* Frames, as written to the transport.  `at` is the state of the transport
\* when transport.write was called.
Frame(cmd, dest, id, ack) == [cmd |-> cmd, dest |-> dest, id |-> id, ack |-> ack]

\* An entry of StompClient._subscriptions (line 100); NoSub is "no such key".
NoSub ==
    [destination |-> NoValue, handler |-> NoValue, ack |-> NoValue,
     errorDestination |-> NoValue]
Sub(dest, handler, ack, errDest) ==
    [destination |-> dest, handler |-> handler, ack |-> ack, errorDestination |-> errDest]

VARIABLES
    session,                        \* StompSession: recorded subscriptions, in insertion order
    alwaysDisconnectOnUnhandledMsg, \* self._alwaysDisconnectOnUnhandledMsg
    subscriptions,                  \* self._subscriptions: token -> entry
    connectedDeferred,              \* self._connectedDeferred: "None" | "pending"
    connectTimeoutDelayedCall,      \* self._connectTimeoutDelayedCall is set
    connectError,                   \* self._connectError
    disconnectedDeferred,           \* self._disconnectedDeferred: "None" | "pending"
    finishedHandlersDeferred,       \* self._finishedHandlersDeferred: "None" | "pending"
    disconnecting,                  \* self._disconnecting
    disconnectError,                \* self._disconnectError
    activeHandlers,                 \* self._activeHandlers
    transport,                      \* "open" | "closing" (loseConnection called) | "lost"
    written,                        \* frames passed to transport.write, in order
    running,                        \* _handleMessage coroutines suspended at the yield, per message-id
    connectedFired,                 \* results the connect Deferred was fired with, in order
    connectedFiredAt,               \* frames written before the connect Deferred was last fired
    disconnectedFired,              \* results the disconnected Deferred was fired with, in order
    drainFired,                     \* number of times the drain Deferred was fired
    raised,                         \* exception the last call ended with ("None" if it returned)
    event,                          \* the last call made on the client
    stage,                          \* "new" | "connecting" (connect() called) | "connected" (CONNECTED handled)
    calls                           \* how many of the MaxCalls were made

vars == <<session, alwaysDisconnectOnUnhandledMsg, subscriptions, connectedDeferred,
          connectTimeoutDelayedCall, connectError, disconnectedDeferred,
          finishedHandlersDeferred, disconnecting, disconnectError, activeHandlers,
          transport, written, running, connectedFired, connectedFiredAt,
          disconnectedFired, drainFired, raised, event, stage, calls>>

\* The client object and what it is wired to, as one record.
Self ==
    [session |-> session,
     alwaysDisconnectOnUnhandledMsg |-> alwaysDisconnectOnUnhandledMsg,
     subscriptions |-> subscriptions,
     connectedDeferred |-> connectedDeferred,
     connectTimeoutDelayedCall |-> connectTimeoutDelayedCall,
     connectError |-> connectError,
     disconnectedDeferred |-> disconnectedDeferred,
     finishedHandlersDeferred |-> finishedHandlersDeferred,
     disconnecting |-> disconnecting,
     disconnectError |-> disconnectError,
     activeHandlers |-> activeHandlers,
     transport |-> transport,
     written |-> written,
     running |-> running,
     connectedFired |-> connectedFired,
     connectedFiredAt |-> connectedFiredAt,
     disconnectedFired |-> disconnectedFired,
     drainFired |-> drainFired,
     raised |-> "None"]

\* The step leaves the object as `s`; `s` is evaluated once, as the value r.
Becomes(s) ==
    \E r \in {s} :
        /\ session' = r.session
        /\ alwaysDisconnectOnUnhandledMsg' = r.alwaysDisconnectOnUnhandledMsg
        /\ subscriptions' = r.subscriptions
        /\ connectedDeferred' = r.connectedDeferred
        /\ connectTimeoutDelayedCall' = r.connectTimeoutDelayedCall
        /\ connectError' = r.connectError
        /\ disconnectedDeferred' = r.disconnectedDeferred
        /\ finishedHandlersDeferred' = r.finishedHandlersDeferred
        /\ disconnecting' = r.disconnecting
        /\ disconnectError' = r.disconnectError
        /\ activeHandlers' = r.activeHandlers
        /\ transport' = r.transport
        /\ written' = r.written
        /\ running' = r.running
        /\ connectedFired' = r.connectedFired
        /\ connectedFiredAt' = r.connectedFiredAt
        /\ disconnectedFired' = r.disconnectedFired
        /\ drainFired' = r.drainFired
        /\ raised' = r.raised

Is(s) ==
    /\ session = s.session
    /\ alwaysDisconnectOnUnhandledMsg = s.alwaysDisconnectOnUnhandledMsg
    /\ subscriptions = s.subscriptions
    /\ connectedDeferred = s.connectedDeferred
    /\ connectTimeoutDelayedCall = s.connectTimeoutDelayedCall
    /\ connectError = s.connectError
    /\ disconnectedDeferred = s.disconnectedDeferred
    /\ finishedHandlersDeferred = s.finishedHandlersDeferred
    /\ disconnecting = s.disconnecting
    /\ disconnectError = s.disconnectError
    /\ activeHandlers = s.activeHandlers
    /\ transport = s.transport
    /\ written = s.written
    /\ running = s.running
    /\ connectedFired = s.connectedFired
    /\ connectedFiredAt = s.connectedFiredAt
    /\ disconnectedFired = s.disconnectedFired
    /\ drainFired = s.drainFired
    /\ raised = s.raised

\* ---------------------------------------------------------------- session
\* stompest.protocol.session.StompSession.  A recorded subscription is
\* (destination, headers, context): the ack header as the caller gave it and
\* the handler and the errorDestination keyword kept in the context.
SessionEntry(dest, ackHeader, errDest, handler) ==
    [destination |-> dest, ack |-> ackHeader, errorDestination |-> errDest,
     handler |-> handler]

\* session.token(frame or headers): the key a MESSAGE frame is matched with.
sessionToken(headers) == headers.destination

sessionHas(sess, token) == \E i \in 1..Len(sess) : sess[i].destination = token

\* session.subscribe(dest, headers, context): records the subscription.
sessionSubscribe(sess, dest, ackHeader, errDest, handler) ==
    IF sessionHas(sess, dest)
    THEN [i \in 1..Len(sess) |->
            IF sess[i].destination = dest
            THEN SessionEntry(dest, ackHeader, errDest, handler)
            ELSE sess[i]]
    ELSE Append(sess, SessionEntry(dest, ackHeader, errDest, handler))

\* session.unsubscribe(token): removes the record (the caller checks sessionHas:
\* an unknown token is UnknownSubscription).
sessionUnsubscribe(sess, token) ==
    SelectSeq(sess, LAMBDA e : e.destination # token)

\* session.replay(): yields every recorded subscription in insertion order and
\* forgets them.  The yielded sequence is the session before the call.
sessionReplay(sess) == << >>

\* ----------------------------------------------------------- raw commands
\* transport.write (line 187)
_write(s, frame) ==
    [s EXCEPT !.written = Append(@, [frame |-> frame, at |-> s.transport])]

\* StompClient.sendFrame (lines 119-123)
sendFrame(s, frame) == _write(s, frame)

\* transport.loseConnection(): asks the transport to close; the close event
\* (connectionLost) comes later.
loseConnection(s) ==
    [s EXCEPT !.transport = IF @ = "open" THEN "closing" ELSE @]

\* StompClient.send (lines 114-117)
send(s, dest, id) == sendFrame(s, Frame("SEND", dest, id, NoValue))

\* StompClient._connect (lines 168-169)
_connect(s) == sendFrame(s, Frame("CONNECT", NoValue, NoValue, NoValue))

\* StompClient._ack (lines 177-178)
_ack(s, messageId) == sendFrame(s, Frame("ACK", NoValue, messageId, NoValue))

\* _disconnect that forgets the subscriptions whatever the cause.
_disconnect_alwaysForget(s) ==
    LET s1 == sendFrame(s, Frame("DISCONNECT", NoValue, NoValue, NoValue))
    IN  [loseConnection(s1) EXCEPT !.session = sessionReplay(@)]

\* StompClient._disconnect (lines 171-175)
_disconnect(s) ==
    LET s1 == sendFrame(s, Frame("DISCONNECT", NoValue, NoValue, NoValue))
        s2 == loseConnection(s1)
    IN  IF s2.disconnectError = NoError
        THEN [s2 EXCEPT !.session = sessionReplay(@)]
        ELSE s2

\* ---------------------------------------------------------------- helpers
\* StompClient._cancelConnectTimeout (lines 192-197)
_cancelConnectTimeout(s) ==
    IF ~s.connectTimeoutDelayedCall THEN s
    ELSE [s EXCEPT !.connectTimeoutDelayedCall = FALSE]

\* StompClient._handlersInProgress (lines 238-239)
_handlersInProgress(s) == s.activeHandlers # {}

\* StompClient._finishHandlers (lines 231-236); it returns the Deferred exactly
\* when _handlersInProgress.
_finishHandlers(s) ==
    IF _handlersInProgress(s)
    THEN [s EXCEPT !.finishedHandlersDeferred = "pending"]
    ELSE s

\* disconnect that does not wait for the handlers in progress.
disconnect_noDrain(s, failure) ==
    LET s1 == IF failure # NoError THEN [s EXCEPT !.disconnectError = failure] ELSE s
    IN  IF s1.disconnecting THEN s1
        ELSE _disconnect([s1 EXCEPT !.disconnecting = TRUE])

\* StompClient.disconnect (lines 80-90).  maybeDeferred(...).addBoth(...) runs
\* _disconnect at once when _finishHandlers returned None, and when the drain
\* Deferred fires otherwise (see _finish).
disconnect(s, failure) ==
    LET s1 == IF failure # NoError THEN [s EXCEPT !.disconnectError = failure] ELSE s
    IN  IF s1.disconnecting THEN s1
        ELSE LET s2 == [s1 EXCEPT !.disconnecting = TRUE]
                 s3 == _finishHandlers(s2)
             IN  IF _handlersInProgress(s2) THEN s3 ELSE _disconnect(s3)

\* _finish without the _handlersInProgress() test of line 320.
_finish_ignoringHandlers(s) ==
    IF s.finishedHandlersDeferred = "None" THEN s
    ELSE LET s1 == _disconnect([s EXCEPT !.drainFired = @ + 1])
         IN  [s1 EXCEPT !.finishedHandlersDeferred = "None"]

\* StompClient._finish (lines 318-323).  The drain Deferred carries the callback
\* disconnect() added: _disconnect.
_finish(s) ==
    IF s.finishedHandlersDeferred = "None" \/ _handlersInProgress(s) THEN s
    ELSE LET s1 == _disconnect([s EXCEPT !.drainFired = @ + 1])
         IN  [s1 EXCEPT !.finishedHandlersDeferred = "None"]

\* StompClient._handlerFinished (lines 241-243): set.remove raises KeyError
\* when the id is not in the set.
_handlerFinished(s, messageId) ==
    IF messageId \notin s.activeHandlers THEN [s EXCEPT !.raised = "KeyError"]
    ELSE [s EXCEPT !.activeHandlers = @ \ {messageId}]

\* _handlerStarted without the membership test of line 246.
_handlerStarted_unchecked(s, messageId) ==
    [s EXCEPT !.activeHandlers = @ \cup {messageId}]

\* StompClient._handlerStarted (lines 245-249)
_handlerStarted(s, messageId) ==
    IF messageId \in s.activeHandlers THEN [s EXCEPT !.raised = "StompProtocolError"]
    ELSE [s EXCEPT !.activeHandlers = @ \cup {messageId}]

\* _postProcessMessage without the _finish() call of line 316.
_postProcessMessage_noFinish(s, messageId) == _handlerFinished(s, messageId)

\* StompClient._postProcessMessage (lines 314-316)
_postProcessMessage(s, messageId) ==
    LET s1 == _handlerFinished(s, messageId)
    IN  IF s1.raised # "None" THEN s1 ELSE _finish(s1)

\* _messageHandlerFailed without the early return of lines 257-258.
_messageHandlerFailed_noReturn(s, failure, messageId, errDest) ==
    IF errDest # NoValue
    THEN disconnect(_ack(send(s, errDest, messageId), messageId), failure)
    ELSE disconnect(s, failure)

\* StompClient._messageHandlerFailed (lines 251-259)
_messageHandlerFailed(s, failure, messageId, errDest) ==
    IF errDest # NoValue
    THEN LET s1 == send(s, errDest, messageId)
             s2 == _ack(s1, messageId)
         IN  IF ~s.alwaysDisconnectOnUnhandledMsg THEN s2
             ELSE disconnect(s2, failure)
    ELSE disconnect(s, failure)

\* _isClientAck that knows the mode 'client' only.
_isClientAck_clientOnly(subscription) == subscription.ack = "client"

\* StompClient._isClientAck (lines 311-312)
_isClientAck(subscription) == subscription.ack \in CLIENT_ACK_MODES


\* -------------------------------------------------------------- user calls
\* StompClient.connect (lines 71-78)
connect(s, timeout) ==
    LET s1 == IF timeout THEN [s EXCEPT !.connectTimeoutDelayedCall = TRUE] ELSE s
        s2 == _connect(s1)
    IN  [s2 EXCEPT !.connectedDeferred = "pending"]

\* StompClient.subscribe (lines 92-102); headers.setdefault gives the ack mode.
subscribe(s, dest, handler, ackHeader, errDest) ==
    LET ack == IF ackHeader = NoValue THEN DEFAULT_ACK_MODE ELSE ackHeader
        token == sessionToken([destination |-> dest])
        s1 == [s EXCEPT !.session = sessionSubscribe(@, dest, ackHeader, errDest, handler)]
        s2 == [s1 EXCEPT !.subscriptions[token] = Sub(dest, handler, ack, errDest)]
    IN  sendFrame(s2, Frame("SUBSCRIBE", dest, NoValue, ack))

\* StompClient.unsubscribe (lines 104-112).  session.unsubscribe is called
\* outside the try block: what it raises leaves unsubscribe.
unsubscribe(s, token) ==
    IF ~sessionHas(s.session, token) THEN [s EXCEPT !.raised = "UnknownSubscription"]
    ELSE LET s1 == [s EXCEPT !.session = sessionUnsubscribe(@, token)]
         IN  IF s1.subscriptions[token] = NoSub THEN s1
             ELSE sendFrame([s1 EXCEPT !.subscriptions[token] = NoSub],
                            Frame("UNSUBSCRIBE", token, NoValue, NoValue))

\* ------------------------------------------------------- reactor callbacks
\* StompClient._connectTimeout (lines 261-265)
_connectTimeout(s) ==
    loseConnection([s EXCEPT !.connectTimeoutDelayedCall = FALSE,
                             !.connectError = StompConnectTimeout])

\* _handleConnectionLostDisconnect without lines 208-209: a loss nobody asked
\* for is reported like a clean disconnect.
_handleConnectionLostDisconnect_noUnexpected(s) ==
    IF s.disconnectedDeferred = "None" THEN s
    ELSE LET s2 == IF s.disconnectError # NoError
                   THEN [s EXCEPT !.disconnectedFired = Append(@, s.disconnectError),
                                  !.disconnectError = NoError]
                   ELSE [s EXCEPT !.disconnectedFired = Append(@, Success)]
         IN  [s2 EXCEPT !.disconnectedDeferred = "None"]

\* _handleConnectionLostDisconnect that reports every close as a success.
_handleConnectionLostDisconnect_noCause(s) ==
    IF s.disconnectedDeferred = "None" THEN s
    ELSE [s EXCEPT !.disconnectedFired = Append(@, Success),
                   !.disconnectError = NoError,
                   !.disconnectedDeferred = "None"]

\* StompClient._handleConnectionLostDisconnect (lines 205-217)
_handleConnectionLostDisconnect(s) ==
    IF s.disconnectedDeferred = "None" THEN s
    ELSE LET s1 == IF ~s.disconnecting
                   THEN [s EXCEPT !.disconnectError = StompConnectionError]
                   ELSE s
             s2 == IF s1.disconnectError # NoError
                   THEN [s1 EXCEPT !.disconnectedFired = Append(@, s1.disconnectError),
                                   !.disconnectError = NoError]
                   ELSE [s1 EXCEPT !.disconnectedFired = Append(@, Success)]
         IN  [s2 EXCEPT !.disconnectedDeferred = "None"]

\* StompClient._handleConnectionLostConnect (lines 219-229)
_handleConnectionLostConnect(s) ==
    IF s.connectedDeferred = "None" THEN s
    ELSE LET error == IF s.connectError # NoError THEN s.connectError
                      ELSE StompConnectionError
         IN  [s EXCEPT !.connectError = NoError,
                       !.connectedFired = Append(@, error),
                       !.connectedFiredAt = Len(s.written),
                       !.connectedDeferred = "None"]

\* StompClient.connectionLost (lines 138-150): the transport's close event.
connectionLost(s) ==
    LET s1 == _cancelConnectTimeout(s)
        s2 == _handleConnectionLostConnect(s1)
        s3 == _handleConnectionLostDisconnect(s2)
    IN  [s3 EXCEPT !.transport = "lost"]

\* StompClient._replay (lines 325-328): session.replay() hands out the recorded
\* subscriptions and forgets them; each is subscribed again.
RECURSIVE _replayEach(_, _)
_replayEach(s, entries) ==
    IF entries = << >> THEN s
    ELSE LET e == Head(entries)
         IN  _replayEach(subscribe(s, e.destination, e.handler, e.ack,
                                   e.errorDestination),
                         Tail(entries))

_replay(s) == _replayEach([s EXCEPT !.session = sessionReplay(@)], s.session)

\* _handleConnected with the callback of line 276 moved before the replay of
\* line 275.
_handleConnected_callbackFirst(s) ==
    LET s1 == _cancelConnectTimeout(s)
        s2 == [s1 EXCEPT !.disconnectedDeferred = "pending"]
        s3 == IF s2.connectedDeferred = "None" THEN [s2 EXCEPT !.raised = "AttributeError"]
              ELSE [s2 EXCEPT !.connectedFired = Append(@, Success),
                              !.connectedFiredAt = Len(s2.written),
                              !.connectedDeferred = "None"]
    IN  IF s3.raised # "None" THEN s3 ELSE _replay(s3)

\* StompClient._handleConnected (lines 267-276); None.callback is an
\* AttributeError.
_handleConnected(s) ==
    LET s1 == _cancelConnectTimeout(s)
        s2 == [s1 EXCEPT !.disconnectedDeferred = "pending"]
        s3 == _replay(s2)
    IN  IF s3.connectedDeferred = "None" THEN [s3 EXCEPT !.raised = "AttributeError"]
        ELSE [s3 EXCEPT !.connectedFired = Append(@, Success),
                        !.connectedFiredAt = Len(s3.written),
                        !.connectedDeferred = "None"]

\* _handleMessage without the disconnecting test of lines 292-294.
_handleMessage_whileDisconnecting(s, token, messageId) ==
    IF s.subscriptions[token] = NoSub THEN s
    ELSE LET s1 == _handlerStarted(s, messageId)
         IN  IF s1.raised # "None" THEN s1
             ELSE [s1 EXCEPT !.running[messageId] = Append(@, s.subscriptions[token])]

\* StompClient._handleMessage, up to the yield (lines 278-302).  What it raises
\* is the failure of the Deferred inlineCallbacks returns, which dataReceived
\* drops.
_handleMessage(s, token, messageId) ==
    IF s.subscriptions[token] = NoSub THEN s
    ELSE IF s.disconnecting THEN s
    ELSE LET s1 == _handlerStarted(s, messageId)
         IN  IF s1.raised # "None" THEN s1
             ELSE [s1 EXCEPT !.running[messageId] = Append(@, s.subscriptions[token])]

\* the else branch of _handleMessage (lines 305-307)
_handlerSucceeded(s, subscription, messageId) ==
    IF _isClientAck(subscription) THEN _ack(s, messageId) ELSE s

\* StompClient._handleMessage, from the yield on (lines 302-309): the handler's
\* Deferred fired with outcome "success" or "failure".
_handleMessageResume(s, messageId, outcome) ==
    LET subscription == Head(s.running[messageId])
        s0 == [s EXCEPT !.running[messageId] = Tail(@)]
        s1 == IF outcome = "failure"
              THEN _messageHandlerFailed(s0, HandlerFailure(messageId), messageId,
                                         subscription.errorDestination)
              ELSE _handlerSucceeded(s0, subscription, messageId)
    IN  _postProcessMessage(s1, messageId)

\* StompClient._handleError (lines 330-343); quirk: the message header holds
\* 'Unexpected ACK received for message-id'.
_handleError(s, quirk) ==
    IF s.connectedDeferred # "None"
    THEN [loseConnection(s) EXCEPT !.connectError = StompProtocolError]
    ELSE IF quirk THEN s
    ELSE disconnect([s EXCEPT !.disconnectError = StompProtocolError], NoError)

\* StompClient._handleReceipt (lines 345-348)
_handleReceipt(s) == s

\* StompClient.dataReceived (lines 152-163), for one parsed frame.
dataReceived(s, cmd, token, messageId, quirk) ==
    CASE cmd = "MESSAGE" -> _handleMessage(s, token, messageId)
      [] cmd = "CONNECTED" -> _handleConnected(s)
      [] cmd = "ERROR" -> _handleError(s, quirk)
      [] cmd = "RECEIPT" -> _handleReceipt(s)
      [] OTHER -> [s EXCEPT !.raised = "StompFrameError"]

\* StompClient.__init__ (lines 44-66), with the session and the keyword the
\* factory passes (lines 353-359), on a transport just connected.
New(sess, always) ==
    [session |-> sess,
     alwaysDisconnectOnUnhandledMsg |-> always,
     subscriptions |-> [d \in Dests |-> NoSub],
     connectedDeferred |-> "None",
     connectTimeoutDelayedCall |-> FALSE,
     connectError |-> NoError,
     disconnectedDeferred |-> "None",
     finishedHandlersDeferred |-> "None",
     disconnecting |-> FALSE,
     disconnectError |-> NoError,
     activeHandlers |-> {},
     transport |-> "open",
     written |-> << >>,
     running |-> [m \in MsgIds |-> << >>],
     connectedFired |-> << >>,
     connectedFiredAt |-> 0,
     disconnectedFired |-> << >>,
     drainFired |-> 0,
     raised |-> "None"]

\* ----------------------------------------------------------------- actions
Event(op, id, dest, cause, outcome) ==
    [op |-> op, id |-> id, dest |-> dest, cause |-> cause, outcome |-> outcome]

Counted == calls < MaxCalls /\ calls' = calls + 1

Init ==
    /\ \E always \in BOOLEAN : Is(New(<< >>, always))
    /\ event = Event("__init__", NoValue, NoValue, NoError, NoValue)
    /\ stage = "new"
    /\ calls = 0

\* The user calls connect(login, passcode, timeout), with or without a timeout.
Connect ==
    /\ stage = "new"
    /\ \E timeout \in BOOLEAN : Becomes(connect(Self, timeout))
    /\ stage' = "connecting"
    /\ event' = Event("connect", NoValue, NoValue, NoError, NoValue)
    /\ UNCHANGED calls

\* The reactor runs the delayed call connect() scheduled.
ConnectTimeout ==
    /\ connectTimeoutDelayedCall
    /\ Becomes(_connectTimeout(Self))
    /\ event' = Event("_connectTimeout", NoValue, NoValue, NoError, NoValue)
    /\ UNCHANGED <<stage, calls>>

\* The transport delivers frames until it reports the close, also between
\* loseConnection() and the close event.  The broker answers CONNECT with one
\* CONNECTED frame and sends MESSAGE frames only after it.
Delivering == stage # "new" /\ transport # "lost"

RecvConnected ==
    /\ Delivering
    /\ stage = "connecting"
    /\ connectedDeferred = "pending"
    /\ Becomes(dataReceived(Self, "CONNECTED", NoValue, NoValue, FALSE))
    /\ stage' = "connected"
    /\ event' = Event("CONNECTED", NoValue, NoValue, NoError, NoValue)
    /\ UNCHANGED calls

RecvMessage ==
    /\ Delivering
    /\ stage = "connected"
    /\ \E token \in Dests, messageId \in MsgIds :
          /\ Becomes(dataReceived(Self, "MESSAGE", token, messageId, FALSE))
          /\ event' = Event("MESSAGE", messageId, token, NoError, NoValue)
    /\ Counted
    /\ UNCHANGED stage

RecvError ==
    /\ Delivering
    /\ \E quirk \in BOOLEAN :
          /\ Becomes(dataReceived(Self, "ERROR", NoValue, NoValue, quirk))
          /\ event' = Event("ERROR", NoValue, NoValue, NoError,
                            IF quirk THEN "quirk" ELSE NoValue)
    /\ Counted
    /\ UNCHANGED stage

RecvOther ==
    /\ Delivering
    /\ \E cmd \in {"RECEIPT", "BOGUS"} :
          /\ Becomes(dataReceived(Self, cmd, NoValue, NoValue, FALSE))
          /\ event' = Event(cmd, NoValue, NoValue, NoError, NoValue)
    /\ UNCHANGED <<stage, calls>>

\* The Deferred of a running handler fires: _handleMessage resumes.
HandlerDone ==
    /\ \E messageId \in MsgIds, outcome \in {"success", "failure"} :
          /\ running[messageId] # << >>
          /\ event' = Event("handlerDone", messageId,
                            Head(running[messageId]).destination,
                            NoError, outcome)
          /\ Becomes(_handleMessageResume(Self, messageId, outcome))
    /\ UNCHANGED <<stage, calls>>

\* The user calls the client's methods once connect() has given the client
\* (StompCreator.getConnection, lines 368-373) and until the close is reported.
\* disconnect(failure), with or without a failure:
Disconnect ==
    /\ stage = "connected"
    /\ transport # "lost"
    /\ \E failure \in UserCauses \cup {NoError} :
          /\ Becomes(disconnect(Self, failure))
          /\ event' = Event("disconnect", NoValue, NoValue, failure, NoValue)
    /\ Counted
    /\ UNCHANGED stage

\* The user subscribes to a destination the session does not record yet.
Subscribe ==
    /\ stage = "connected"
    /\ transport # "lost"
    /\ \E call \in SubscribeCalls :
          /\ ~sessionHas(session, call[1])
          /\ Becomes(subscribe(Self, call[1], call[4], call[2], call[3]))
          /\ event' = Event("subscribe", NoValue, call[1], NoError, call[2])
    /\ Counted
    /\ UNCHANGED stage

Unsubscribe ==
    /\ stage = "connected"
    /\ transport # "lost"
    /\ \E token \in Dests :
          /\ Becomes(unsubscribe(Self, token))
          /\ event' = Event("unsubscribe", NoValue, token, NoError, NoValue)
    /\ Counted
    /\ UNCHANGED stage

\* The transport reports the close, once, asked for or not.
ConnectionLost ==
    /\ Delivering
    /\ event' = Event("connectionLost", NoValue, NoValue, NoError, NoValue)
    /\ Becomes(connectionLost(Self))
    /\ UNCHANGED <<stage, calls>>

\* After the close, with no handler of the old client left running, the
\* factory builds the next client over the same session.
NewConnection ==
    /\ transport = "lost"
    /\ \A m \in MsgIds : running[m] = << >>
    /\ Becomes(New(session, alwaysDisconnectOnUnhandledMsg))
    /\ stage' = "new"
    /\ event' = Event("__init__", NoValue, NoValue, NoError, NoValue)
    /\ Counted

Next ==
    \/ Connect
    \/ ConnectTimeout
    \/ RecvConnected
    \/ RecvMessage
    \/ RecvError
    \/ RecvOther
    \/ HandlerDone
    \/ Disconnect
    \/ Subscribe
    \/ Unsubscribe
    \/ ConnectionLost
    \/ NewConnection

Spec == Init /\ [][Next]_vars

\* The same program when every handler's Deferred eventually fires and the
\* transport, once asked to close (loseConnection), eventually reports the
\* close.
LiveSpec ==
    /\ Init
    /\ [][Next]_vars
    /\ WF_vars(HandlerDone)
    /\ WF_vars(transport = "closing" /\ ConnectionLost)

\* ------------------------------------------------------------------ claims
\* The step just taken was the call `op` (every call sets event, and a step
\* that changes nothing is no call).
Did(op) == event'.op = op /\ vars' # vars

\* The handlers running (started, not finished) for a message-id.
Running(m) == Len(running[m])

\* C1 as stated: whenever a MESSAGE frame arrives for a known subscription
\* while a handler for the same message-id is running, no second handler is
\* started, the dispatch fails with StompProtocolError and the id stays in the
\* active set.  (Refuted: while disconnecting the frame is dropped at line 292,
\* before _handlerStarted, and nothing fails.)
C1_DuplicateAlwaysFails ==
    [][ (/\ Did("MESSAGE")
         /\ subscriptions[event'.dest] # NoSub
         /\ Running(event'.id) > 0)
        => (/\ raised' = "StompProtocolError"
            /\ running' = running
            /\ activeHandlers' = activeHandlers) ]_vars

\* C1, amended: at most one handler runs per message-id and the active set
\* holds exactly the ids with a running handler; a MESSAGE frame for a known
\* subscription whose id has a running handler starts no second handler and
\* leaves the active set as it is, failing with StompProtocolError unless the
\* client is disconnecting (then the frame is dropped without error); and an
\* id leaves the active set only when its handler completes.
C1_SingleActiveHandler ==
    /\ [](\A m \in MsgIds : Running(m) <= 1 /\ (m \in activeHandlers <=> Running(m) = 1))
    /\ [][ (/\ Did("MESSAGE")
            /\ subscriptions[event'.dest] # NoSub
            /\ Running(event'.id) > 0)
           => (/\ running' = running
               /\ activeHandlers' = activeHandlers
               /\ raised' = IF disconnecting THEN "None" ELSE "StompProtocolError") ]_vars
    /\ [][ \A m \in activeHandlers :
              m \notin activeHandlers' => (Did("handlerDone") /\ event'.id = m) ]_vars

\* C1 witness: a duplicate MESSAGE was just refused while the first handler runs.
C1_Witness ==
    /\ event.op = "MESSAGE"
    /\ raised = "StompProtocolError"
    /\ Running(event.id) = 1
    /\ event.id \in activeHandlers

\* The frames the step just taken wrote.
Wrote == SubSeq(written', Len(written) + 1, Len(written'))
SameWire == Len(written') >= Len(written) /\ SubSeq(written', 1, Len(written)) = written

\* How many of a sequence of written frames are `cmd` frames for `id`.
HowMany(ws, cmd, id) ==
    Cardinality({i \in 1..Len(ws) : ws[i].frame.cmd = cmd /\ ws[i].frame.id = id})
WroteDisconnect == SameWire /\ HowMany(Wrote, "DISCONNECT", NoValue) > 0

\* C2: the DISCONNECT frame is written, and the transport closed with it, only
\* in a state in which the active-handlers set is empty and no handler runs:
\* a disconnect requested with N handlers in flight writes nothing until the
\* last of them completes, and no ACK or SEND of a handler follows DISCONNECT on
\* the wire.
C2_DrainBeforeDisconnect ==
    /\ [][ WroteDisconnect =>
             (/\ activeHandlers' = {}
              /\ \A m \in MsgIds : running'[m] = << >>
              /\ disconnecting'
              /\ transport' # "open"
              /\ Wrote[Len(Wrote)].frame.cmd = "DISCONNECT") ]_vars
    /\ [][ (Did("disconnect") /\ ~disconnecting /\ activeHandlers # {})
             => (written' = written /\ transport' = transport
                 /\ finishedHandlersDeferred' = "pending") ]_vars
    /\ [](\A i, j \in 1..Len(written) :
             (i < j /\ written[i].frame.cmd = "DISCONNECT")
                => written[j].frame.cmd \notin {"ACK", "SEND", "DISCONNECT"})

\* C2 witness: the last handler in flight completed after disconnect() had
\* been called; its ACK and then DISCONNECT were written.
C2_Witness ==
    /\ event.op = "handlerDone"
    /\ drainFired = 1
    /\ Len(written) >= 2
    /\ written[Len(written)].frame.cmd = "DISCONNECT"
    /\ written[Len(written) - 1].frame = Frame("ACK", NoValue, event.id, NoValue)
    /\ activeHandlers = {}

\* C3 as stated: once the connect timeout has fired (StompConnectTimeout is
\* recorded and the connect Deferred is pending) the connect Deferred is fired
\* with StompConnectTimeout or not at all, never with success.
C3_TimeoutWins ==
    [][ (connectError = StompConnectTimeout /\ connectedDeferred = "pending")
          => connectedFired' \in {connectedFired,
                                  Append(connectedFired, StompConnectTimeout)} ]_vars

\* C4: the ack mode registered by subscribe is the ack header given, or 'client'
\* when none was given; a handler that completes successfully writes exactly
\* one ACK frame with the message's id when the mode of its subscription is
\* 'client' or 'client-individual', and no ACK frame when it is 'auto'.
C4_AckModeGating ==
    /\ [][ Did("subscribe") =>
             subscriptions'[event'.dest].ack =
                 (IF event'.outcome = NoValue THEN "client" ELSE event'.outcome) ]_vars
    /\ [](\A m \in MsgIds : \A i \in 1..Len(running[m]) :
             running[m][i].ack \in {"auto", "client", "client-individual"})
    /\ [][ (Did("handlerDone") /\ event'.outcome = "success") =>
             LET m == event'.id
                 mode == Head(running[m]).ack
             IN  /\ SameWire
                 /\ \A i \in 1..Len(Wrote) : Wrote[i].frame.cmd \in {"ACK", "DISCONNECT"}
                 /\ HowMany(Wrote, "ACK", m) =
                       (IF mode \in {"client", "client-individual"} THEN 1 ELSE 0)
                 /\ \A o \in MsgIds \ {m} : HowMany(Wrote, "ACK", o) = 0 ]_vars

\* C4 witness: a handler of a subscription made without ack header succeeded
\* and its message was acknowledged.
C4_Witness ==
    /\ event.op = "handlerDone"
    /\ event.outcome = "success"
    /\ \E i \in 1..Len(session) :
          session[i].destination = event.dest /\ session[i].ack = NoValue
    /\ Len(written) >= 1
    /\ written[Len(written)].frame = Frame("ACK", NoValue, event.id, NoValue)

\* C5: when a handler fails for a message whose subscription has an error
\* destination, the client writes one SEND frame to the error destination and
\* then one ACK frame for the message, and the id leaves the active set; with
\* always-disconnect disabled the disconnecting flag and the disconnect cause
\* stay as they were; with it enabled the client is disconnecting afterwards
\* with the failure as cause.
C5_ErrorDestinationRecovery ==
    [][ (/\ Did("handlerDone")
         /\ event'.outcome = "failure"
         /\ Head(running[event'.id]).errorDestination # NoValue) =>
          LET m == event'.id
              errDest == Head(running[m]).errorDestination
          IN  /\ SameWire
              /\ Len(Wrote) >= 2
              /\ Wrote[1].frame = Frame("SEND", errDest, m, NoValue)
              /\ Wrote[2].frame = Frame("ACK", NoValue, m, NoValue)
              /\ HowMany(Wrote, "SEND", m) = 1
              /\ HowMany(Wrote, "ACK", m) = 1
              /\ m \notin activeHandlers'
              /\ IF alwaysDisconnectOnUnhandledMsg
                 THEN disconnecting' /\ disconnectError' = HandlerFailure(m)
                 ELSE disconnecting' = disconnecting /\ disconnectError' = disconnectError
        ]_vars

\* C5 witness: a handler failed, its message went to the error destination and
\* was acknowledged, and the client is not disconnecting.
C5_Witness ==
    /\ event.op = "handlerDone"
    /\ event.outcome = "failure"
    /\ ~alwaysDisconnectOnUnhandledMsg
    /\ ~disconnecting
    /\ disconnectError = NoError
    /\ Len(written) >= 2
    /\ written[Len(written) - 1].frame = Frame("SEND", "/queue/err", event.id, NoValue)
    /\ written[Len(written)].frame = Frame("ACK", NoValue, event.id, NoValue)
    /\ event.id \notin activeHandlers

\* C6: when DISCONNECT is written, the session's recorded subscriptions are all
\* forgotten if no disconnect cause is recorded, and are left as they were if
\* one is recorded.
C6_ForgetOnCleanDisconnect ==
    [][ WroteDisconnect =>
          session' = (IF disconnectError' = NoError THEN << >> ELSE session) ]_vars

\* C6 witness: a clean disconnect has been sent for a client that had
\* subscribed; the session records nothing any more.
C6_Witness ==
    /\ Len(written) >= 1
    /\ written[Len(written)].frame.cmd = "DISCONNECT"
    /\ disconnectError = NoError
    /\ \E d \in Dests : subscriptions[d] # NoSub
    /\ session = << >>

\* C7: when the transport reports the close while the disconnected Deferred is
\* pending and disconnect was never requested, that Deferred fails with the
\* generic StompConnectionError; when it reports the close while the connect
\* Deferred is pending and no connect error is recorded, the connect Deferred
\* fails with the same StompConnectionError.
C7_UnexpectedLoss ==
    [][ Did("connectionLost") =>
          /\ (disconnectedDeferred = "pending" /\ ~disconnecting)
                => disconnectedFired' = Append(disconnectedFired, StompConnectionError)
          /\ (connectedDeferred = "pending" /\ connectError = NoError)
                => connectedFired' = Append(connectedFired, StompConnectionError) ]_vars

\* C7 witness: a connected client nobody asked to disconnect lost its
\* transport.
C7_Witness ==
    /\ event.op = "connectionLost"
    /\ ~disconnecting
    /\ connectedFired = <<Success>>
    /\ disconnectedFired = <<StompConnectionError>>

\* C8: on one client object, once the disconnecting flag is true it stays true,
\* no handler is started and the active-handlers set only shrinks.
C8_NoDispatchWhileDisconnecting ==
    [][ (disconnecting /\ ~Did("__init__")) =>
          /\ disconnecting'
          /\ activeHandlers' \subseteq activeHandlers
          /\ \A m \in MsgIds : Len(running'[m]) <= Len(running[m]) ]_vars

\* C8 witness: a MESSAGE frame for a known subscription, with an id no handler
\* runs for, arrived while disconnecting and started nothing.
C8_Witness ==
    /\ event.op = "MESSAGE"
    /\ disconnecting
    /\ subscriptions[event.dest] # NoSub
    /\ event.id \notin activeHandlers
    /\ running[event.id] = << >>
    /\ transport # "lost"

\* C9 as stated: a disconnect(cause) call made while already disconnecting
\* writes no frame, starts no drain wait, and records its cause only if no
\* cause was recorded; a cause already recorded stays.
C9_SecondDisconnectKeepsFirstCause ==
    [][ (Did("disconnect") /\ disconnecting) =>
          /\ written' = written
          /\ finishedHandlersDeferred' = finishedHandlersDeferred
          /\ drainFired' = drainFired
          /\ disconnectError' =
                (IF disconnectError # NoError THEN disconnectError ELSE event'.cause)
      ]_vars

\* C10 as stated: the disconnected Deferred is fired at most once, only by the
\* transport's close event, which fires it when it is pending: with success if
\* no disconnect cause is recorded, with the recorded cause otherwise.
C10_ResolvedByCloseWithRecordedCause ==
    /\ [](Len(disconnectedFired) <= 1)
    /\ [][ (disconnectedFired' # disconnectedFired /\ ~Did("__init__"))
             => Did("connectionLost") ]_vars
    /\ [][ (Did("connectionLost") /\ disconnectedDeferred = "pending") =>
             /\ disconnectedDeferred' = "None"
             /\ disconnectedFired' =
                   Append(disconnectedFired,
                          IF disconnectError = NoError THEN Success
                          ELSE disconnectError) ]_vars

\* C10, amended: the disconnected Deferred is fired at most once, only by the
\* transport's close event, which fires it when it is pending: with the generic
\* StompConnectionError if disconnect was never requested, and otherwise with
\* success if no disconnect cause is recorded and with the recorded cause if one
\* is.  disconnect(), the completion of the drain and the writing of DISCONNECT
\* never fire it.
C10_ResolvedOnlyByClose ==
    /\ [](Len(disconnectedFired) <= 1)
    /\ [](disconnectedDeferred = "pending" => disconnectedFired = << >>)
    /\ [][ (disconnectedFired' # disconnectedFired /\ ~Did("__init__"))
             => Did("connectionLost") ]_vars
    /\ [][ (Did("connectionLost") /\ disconnectedDeferred = "pending") =>
             /\ disconnectedDeferred' = "None"
             /\ disconnectedFired' =
                   Append(disconnectedFired,
                          IF ~disconnecting THEN StompConnectionError
                          ELSE IF disconnectError = NoError THEN Success
                          ELSE disconnectError) ]_vars

\* C10 witness: DISCONNECT was written after a drain, and the disconnected
\* Deferred was fired, with the recorded cause, when the transport closed.
C10_Witness ==
    /\ event.op = "connectionLost"
    /\ disconnecting
    /\ drainFired = 1
    /\ \E i \in 1..Len(written) : written[i].frame.cmd = "DISCONNECT"
    /\ disconnectedFired \in {<<c>> : c \in UserCauses}

\* C11: the connect Deferred is fired at most once per connection; an ERROR frame
\* received while it is pending records StompProtocolError, closes the
\* transport and does not fire it; and once that error is recorded the Deferred
\* is fired only by connectionLost, with the recorded StompProtocolError.
C11_ConnectResolvedOnceByClose ==
    /\ [](Len(connectedFired) <= 1)
    /\ [][ (Did("ERROR") /\ connectedDeferred = "pending")
             => (/\ connectError' = StompProtocolError
                 /\ transport' # "open"
                 /\ connectedDeferred' = "pending"
                 /\ connectedFired' = connectedFired) ]_vars
    /\ [][ (/\ connectedDeferred = "pending"
            /\ connectError = StompProtocolError
            /\ ~Did("__init__"))
             => (\/ /\ connectedFired' = connectedFired
                    /\ connectedDeferred' = "pending"
                    /\ connectError' = StompProtocolError
                 \/ /\ Did("connectionLost")
                    /\ connectedFired' = Append(connectedFired, StompProtocolError)) ]_vars

\* The SUBSCRIBE frame a recorded subscription is replayed with: its
\* destination and its headers, the ack header defaulted as at line 96.
ReplayFrame(e) ==
    Frame("SUBSCRIBE", e.destination, NoValue,
          IF e.ack = NoValue THEN DEFAULT_ACK_MODE ELSE e.ack)

\* C12: when CONNECTED is received with N subscriptions recorded in the session,
\* the step writes exactly one SUBSCRIBE frame per recorded subscription, in
\* insertion order, with its destination and headers, all of them before the
\* connect Deferred is fired; after the step the session records the same N
\* subscriptions and each is registered with its handler, ack mode and
\* errorDestination.
C12_ReplayOnReconnect ==
    [][ Did("CONNECTED")
          => (/\ SameWire
              /\ Wrote = [i \in 1..Len(session) |->
                            [frame |-> ReplayFrame(session[i]), at |-> transport]]
              /\ connectedFired' = Append(connectedFired, Success)
              /\ connectedFiredAt' = Len(written')
              /\ session' = session
              /\ \A i \in 1..Len(session) :
                    subscriptions'[sessionToken(session[i])] =
                        Sub(session[i].destination, session[i].handler,
                            ReplayFrame(session[i]).ack, session[i].errorDestination)) ]_vars

\* C12 witness: CONNECTED was just received on a new connection with two
\* subscriptions recorded, /queue/b before /queue/a; both were replayed in
\* that order after CONNECT and before the connect Deferred fired.
C12_Witness ==
    /\ event.op = "CONNECTED"
    /\ Len(session) = 2
    /\ session[1].destination = "/queue/b"
    /\ Len(written) = 3
    /\ written[2].frame = ReplayFrame(session[1])
    /\ written[3].frame = ReplayFrame(session[2])
    /\ connectedFired = <<Success>>
    /\ connectedFiredAt = 3
    /\ subscriptions["/queue/a"].handler = session[2].handler

\* C13: unsubscribe of a token the session does not record raises nothing,
\* writes no frame and leaves the session and self._subscriptions unchanged;
\* unsubscribe of a recorded token removes it from both and writes exactly one
\* UNSUBSCRIBE frame.
C13_UnknownTokenNonFatal ==
    [][ Did("unsubscribe")
          => IF ~sessionHas(session, event'.dest)
             THEN /\ raised' = "None"
                  /\ written' = written
                  /\ session' = session
                  /\ subscriptions' = subscriptions
             ELSE /\ raised' = "None"
                  /\ ~sessionHas(session', event'.dest)
                  /\ subscriptions' = [subscriptions EXCEPT ![event'.dest] = NoSub]
                  /\ SameWire
                  /\ Len(Wrote) = 1
                  /\ Wrote[1].frame = Frame("UNSUBSCRIBE", event'.dest, NoValue, NoValue) ]_vars

\* C14: once the dispatch of a MESSAGE frame has failed with StompProtocolError
\* (a message-id already being handled), the client is disconnecting or its
\* transport is closed or closing.
C14_ProtocolErrorDisconnects ==
    [][ (Did("MESSAGE") /\ raised' = "StompProtocolError")
          => (disconnecting' \/ transport' # "open") ]_vars

\* C15: when a handler fails and its subscription has no errorDestination, the
\* step writes no ACK and no SEND for the message, records the handler's
\* failure as the disconnect cause, starts the disconnect (DISCONNECT is not
\* written while other handlers are active), removes the message-id from the
\* active set and keeps the session's subscriptions; and a recorded handler
\* failure stays the disconnect cause until connectionLost fails the
\* disconnected Deferred with it, the session's subscriptions still kept.
C15_HandlerFailureEscalation ==
    /\ [][ (/\ Did("handlerDone")
            /\ event'.outcome = "failure"
            /\ Head(running[event'.id]).errorDestination = NoValue)
             => (/\ SameWire
                 /\ HowMany(Wrote, "ACK", event'.id) = 0
                 /\ HowMany(Wrote, "SEND", event'.id) = 0
                 /\ disconnectError' = HandlerFailure(event'.id)
                 /\ disconnecting'
                 /\ event'.id \notin activeHandlers'
                 /\ session' = session
                 /\ (activeHandlers' # {} => HowMany(Wrote, "DISCONNECT", NoValue) = 0)) ]_vars
    /\ [][ \A m \in MsgIds :
             (disconnectError = HandlerFailure(m) /\ ~Did("__init__"))
                => (/\ (Did("handlerDone") \/ Did("connectionLost")) => session' = session
                    /\ \/ disconnectError' = HandlerFailure(m)
                       \/ /\ Did("connectionLost")
                          /\ disconnectedFired' =
                                Append(disconnectedFired, HandlerFailure(m))) ]_vars

\* C16: an ERROR frame received with no connect pending, other than the
\* 'Unexpected ACK received for message-id' one, records StompProtocolError as
\* the disconnect cause and starts the disconnect (DISCONNECT is written at
\* once if no handler is active, and nothing is written otherwise), and a
\* recorded StompProtocolError stays the cause until connectionLost fails the
\* disconnected Deferred with it; the 'Unexpected ACK' ERROR frame and every
\* RECEIPT frame change nothing of the client and write no frame.
C16_ErrorFrameDisconnects ==
    /\ [][ (Did("ERROR") /\ connectedDeferred = "None" /\ event'.outcome # "quirk")
             => (/\ disconnectError' = StompProtocolError
                 /\ disconnecting'
                 /\ SameWire
                 /\ IF ~disconnecting /\ activeHandlers = {}
                    THEN /\ Len(Wrote) = 1
                         /\ Wrote[1].frame.cmd = "DISCONNECT"
                         /\ transport' # "open"
                    ELSE written' = written /\ transport' = transport) ]_vars
    /\ [][ (disconnectError = StompProtocolError /\ ~Did("__init__"))
             => (\/ disconnectError' = StompProtocolError
                 \/ /\ Did("connectionLost")
                    /\ disconnectedFired' =
                          Append(disconnectedFired, StompProtocolError)) ]_vars
    /\ [][ (\/ Did("ERROR") /\ connectedDeferred = "None" /\ event'.outcome = "quirk"
            \/ Did("RECEIPT"))
             => (Self' = Self /\ raised' = "None") ]_vars

\* C17: a frame with an unknown command raises no exception out of
\* dataReceived: the failure closes the transport and is reported through the
\* connect or the disconnected Deferred only.
C17_UnknownCommandThroughFutures ==
    [][ Did("BOGUS") => (raised' = "None" /\ transport' # "open") ]_vars

\* C18: on a connected client that is disconnecting, if every handler in flight
\* eventually completes and the transport eventually reports the close it was
\* asked for, then eventually DISCONNECT has been written exactly once, the
\* transport is closed, the active set is empty and the disconnected Deferred
\* has fired; and as long as a handler is still in flight on a disconnecting
\* client, no DISCONNECT has been written.
C18_DisconnectLiveness ==
    /\ (disconnecting /\ stage = "connected")
          ~> (/\ HowMany(written, "DISCONNECT", NoValue) = 1
              /\ transport = "lost"
              /\ activeHandlers = {}
              /\ disconnectedDeferred = "None"
              /\ Len(disconnectedFired) = 1)
    /\ []((disconnecting /\ activeHandlers # {})
             => HowMany(written, "DISCONNECT", NoValue) = 0)

\* C18 witness: disconnect() waited for a handler in flight, the drain Deferred
\* fired, DISCONNECT was written on the open transport and the close was
\* reported as a clean disconnect.
C18_Witness ==
    /\ disconnecting
    /\ drainFired = 1
    /\ activeHandlers = {}
    /\ transport = "lost"
    /\ HowMany(written, "DISCONNECT", NoValue) = 1
    /\ written[Len(written)].at = "open"
    /\ disconnectedFired = <<Success>>

\* C19: whenever connectionLost fires the disconnected Deferred with success,
\* DISCONNECT has been written before and the active set is empty; and no
\* frame is ever written on a transport that has reported the close.
C19_CleanDisconnectAfterDrain ==
    /\ [][ (/\ Did("connectionLost")
            /\ disconnectedFired' = Append(disconnectedFired, Success))
             => (/\ HowMany(written, "DISCONNECT", NoValue) > 0
                 /\ activeHandlers = {}) ]_vars
    /\ [](\A i \in 1..Len(written) : written[i].at # "lost")

\* C20: the drain Deferred is pending only while the client is disconnecting
\* and the active set is non-empty; it is created only by the step that starts
\* the disconnect, which happens once per connection, and it is fired at most
\* once per connection, by the completion of the last handler in flight, which
\* always fires it.
C20_SingleDrainWaiter ==
    /\ [](finishedHandlersDeferred = "pending" => (disconnecting /\ activeHandlers # {}))
    /\ [](drainFired <= 1)
    /\ [][ (disconnecting /\ ~Did("__init__")) => disconnecting' ]_vars
    /\ [][ (finishedHandlersDeferred = "None" /\ finishedHandlersDeferred' = "pending")
             => (~disconnecting /\ disconnecting' /\ drainFired = 0) ]_vars
    /\ [][ (drainFired' # drainFired /\ ~Did("__init__"))
             => (/\ Did("handlerDone")
                 /\ drainFired' = drainFired + 1
                 /\ activeHandlers = {event'.id}
                 /\ activeHandlers' = {}
                 /\ finishedHandlersDeferred' = "None") ]_vars
    /\ [][ (/\ Did("handlerDone")
            /\ finishedHandlersDeferred = "pending"
            /\ activeHandlers' = {})
             => (drainFired' = drainFired + 1 /\ finishedHandlersDeferred' = "None") ]_vars

\* C20 witness: the drain Deferred was pending with one handler left; that
\* handler just completed and fired it.
C20_Witness ==
    /\ event.op = "handlerDone"
    /\ event.outcome = "success"
    /\ drainFired = 1
    /\ finishedHandlersDeferred = "None"
    /\ disconnecting
    /\ activeHandlers = {}
    /\ HowMany(written, "DISCONNECT", NoValue) = 1

=============================================================================
